---- MODULE Spec2Model ----
(***************************************************************************)
(* A model of pyxs.helpers (src/pyxs/helpers.py): the short-read and       *)
(* short-write safe channel loops writeall/readall, the validators         *)
(* validate_path, validate_watch_path and validate_perms, and the errno    *)
(* translator error().                                                     *)
(*                                                                         *)
(* A caller sits at op = "idle", calls one helper, and the helper either   *)
(* returns or raises; Return brings the caller back to "idle".  The two    *)
(* channel loops run one iteration per step, each iteration issuing one    *)
(* raw call on a channel stub.  Strings are sequences of one-character     *)
(* strings; NUL and LF stand for the characters \x00 and \n.               *)
(***************************************************************************)
EXTENDS Integers, Sequences, FiniteSets, TLC

VARIABLES
    py,      \* major version of the interpreter running the module (2 or 3)
    op,      \* the helper being executed, or "idle"
    arg,     \* its argument: data, length, path, perms or smth
    pc,      \* "loop" inside writeall/readall, "done", "raised", or "idle"
    length,  \* the local `length` of writeall/readall
    chunks,  \* the local `chunks` of readall
    out,     \* outcome of the call: none, a returned value or a raised exception
    stub,    \* behaviour of the raw primitive behind the handle
    k,       \* most bytes the raw primitive transfers in one call
    calls,   \* the raw calls issued on the handle, in call order
    wire     \* bytes the channel accepted (write) or handed out (read), in order

vars == <<py, op, arg, pc, length, chunks, out, stub, k, calls, wire>>

----------------------------------------------------------------------------
(* Bounds of the model. *)

MaxData == 3
MaxChunk == 2
MaxStall == 2
MaxPathLen == 4
Slack == 1
MaxDigits == 1
MaxPerms == 2

----------------------------------------------------------------------------
(* Generic helpers. *)

Min(a, b) == IF a <= b THEN a ELSE b

Seqs(S, n) == UNION {[1..m -> S] : m \in 0..n}

Repeat(c, n) == [i \in 1..n |-> c]

StartsWith(s, p) == Len(s) >= Len(p) /\ SubSeq(s, 1, Len(p)) = p

EndsWith(s, t) == Len(s) >= Len(t) /\ SubSeq(s, Len(s) - Len(t) + 1, Len(s)) = t

None == [kind |-> "none"]

Returned(v) == [kind |-> "return", value |-> v]

Raised(e) == [kind |-> "raise", exc |-> e]

----------------------------------------------------------------------------
(* The channel stub: osnmwrite / osnmread behind an open handle. *)

Byte == {"p", "q"}

StubKinds == {"short", "zero", "faulty"}

IOErrors == {[type |-> "OSError", args |-> "EIO"], [type |-> "OSError", args |-> "EPIPE"]}

\* The counts osnmwrite may report for a buffer: 1..k bytes taken from the
\* front, or nothing at all behind a stalled handle.
osnmwrite(buf) ==
    IF stub = "zero" THEN {0} ELSE 1..Min(k, Len(buf))

\* The chunks osnmread may hand out when asked for at most n bytes.
osnmread(n) ==
    IF stub = "zero" THEN {<< >>} ELSE UNION {[1..m -> Byte] : m \in 1..Min(k, n)}

\* Whether the raw primitive may raise on this call.
MayRaise == stub = "faulty"

Call(a, r) == [arg |-> a, ret |-> r, raised |-> FALSE]

FailedCall(a, e) == [arg |-> a, ret |-> e, raised |-> TRUE]

----------------------------------------------------------------------------
(* writeall(fd, data) *)

\* data[-length:]
SuffixWrong(data, n) == SubSeq(data, 1, n)

Suffix(data, n) == SubSeq(data, Len(data) - n + 1, Len(data))

\* length -= <count>
DecrementWrong(len, n) == len - 1

Decrement(len, n) == len - n

writeall_call ==
    /\ op = "idle"
    /\ \E d \in Seqs(Byte, MaxData), kk \in 1..MaxChunk, st \in StubKinds :
          /\ op' = "writeall"
          /\ arg' = d
          /\ length' = Len(d)
          /\ stub' = st
          /\ k' = kk
    /\ pc' = "loop"
    /\ chunks' = << >>
    /\ out' = None
    /\ calls' = << >>
    /\ wire' = << >>
    /\ UNCHANGED py

\* A variant of the loop that gives up when a raw write reports no progress.
writeall_iter_guarded ==
    /\ op = "writeall" /\ pc = "loop"
    /\ \/ /\ length = 0
          /\ pc' = "done"
          /\ out' = Returned("None")
          /\ UNCHANGED <<length, calls, wire>>
       \/ /\ length # 0
          /\ \E n \in osnmwrite(Suffix(arg, length)) :
                /\ length' = Decrement(length, n)
                /\ calls' = Append(calls, Call(Suffix(arg, length), n))
                /\ wire' = wire \o SubSeq(Suffix(arg, length), 1, n)
                /\ pc' = IF n = 0 THEN "raised" ELSE pc
                /\ out' = IF n = 0 THEN Raised([type |-> "OSError", args |-> "EIO"]) ELSE out
       \/ /\ length # 0
          /\ MayRaise
          /\ \E e \in IOErrors :
                /\ pc' = "raised"
                /\ out' = Raised(e)
                /\ calls' = Append(calls, FailedCall(Suffix(arg, length), e))
          /\ UNCHANGED <<length, wire>>
    /\ UNCHANGED <<py, op, arg, chunks, stub, k>>

\* One evaluation of `while length:` and, when it holds, of the loop body.
writeall_iter ==
    /\ op = "writeall" /\ pc = "loop"
    /\ \/ /\ length = 0
          /\ pc' = "done"
          /\ out' = Returned("None")
          /\ UNCHANGED <<length, calls, wire>>
       \/ /\ length # 0
          \* a loop that makes no progress is followed for MaxStall calls
          /\ stub = "zero" => Len(calls) < MaxStall
          /\ \E n \in osnmwrite(Suffix(arg, length)) :
                /\ length' = Decrement(length, n)
                /\ calls' = Append(calls, Call(Suffix(arg, length), n))
                /\ wire' = wire \o SubSeq(Suffix(arg, length), 1, n)
          /\ UNCHANGED <<pc, out>>
       \/ /\ length # 0
          /\ MayRaise
          /\ \E e \in IOErrors :
                /\ pc' = "raised"
                /\ out' = Raised(e)
                /\ calls' = Append(calls, FailedCall(Suffix(arg, length), e))
          /\ UNCHANGED <<length, wire>>
    /\ UNCHANGED <<py, op, arg, chunks, stub, k>>

----------------------------------------------------------------------------
(* readall(fd, length) *)

\* chunks.append(<chunk>)
AppendChunkWrong(cs, c) == <<c>> \o cs

AppendChunk(cs, c) == Append(cs, c)

RECURSIVE JoinBytes(_)
\* b"".join(chunks)
JoinBytes(cs) == IF cs = << >> THEN << >> ELSE Head(cs) \o JoinBytes(Tail(cs))

readall_call ==
    /\ op = "idle"
    /\ \E n \in 0..MaxData, kk \in 1..MaxChunk, st \in StubKinds :
          /\ op' = "readall"
          /\ arg' = n
          /\ length' = n
          /\ stub' = st
          /\ k' = kk
    /\ pc' = "loop"
    /\ chunks' = << >>
    /\ out' = None
    /\ calls' = << >>
    /\ wire' = << >>
    /\ UNCHANGED py

\* A variant of the loop that swallows an error of the raw read and asks again.
readall_iter_retrying ==
    /\ op = "readall" /\ pc = "loop"
    /\ \/ /\ length = 0
          /\ pc' = "done"
          /\ out' = Returned(JoinBytes(chunks))
          /\ UNCHANGED <<length, chunks, calls, wire>>
       \/ /\ length # 0
          /\ stub = "zero" => Len(calls) < MaxStall
          /\ \E c \in osnmread(length) :
                /\ chunks' = AppendChunk(chunks, c)
                /\ length' = length - Len(chunks'[Len(chunks')])
                /\ calls' = Append(calls, Call(length, c))
                /\ wire' = wire \o c
          /\ UNCHANGED <<pc, out>>
       \/ /\ length # 0
          /\ MayRaise
          /\ Len(calls) < MaxData
          /\ \E e \in IOErrors :
                calls' = Append(calls, FailedCall(length, e))
          /\ UNCHANGED <<pc, out, length, chunks, wire>>
    /\ UNCHANGED <<py, op, arg, stub, k>>

\* One evaluation of `while length:` and, when it holds, of the loop body;
\* the loop's else clause returns the joined chunks.
readall_iter ==
    /\ op = "readall" /\ pc = "loop"
    /\ \/ /\ length = 0
          /\ pc' = "done"
          /\ out' = Returned(JoinBytes(chunks))
          /\ UNCHANGED <<length, chunks, calls, wire>>
       \/ /\ length # 0
          /\ stub = "zero" => Len(calls) < MaxStall
          /\ \E c \in osnmread(length) :
                /\ chunks' = AppendChunk(chunks, c)
                /\ length' = length - Len(chunks'[Len(chunks')])
                /\ calls' = Append(calls, Call(length, c))
                /\ wire' = wire \o c
          /\ UNCHANGED <<pc, out>>
       \/ /\ length # 0
          /\ MayRaise
          /\ \E e \in IOErrors :
                /\ pc' = "raised"
                /\ out' = Raised(e)
                /\ calls' = Append(calls, FailedCall(length, e))
          /\ UNCHANGED <<length, chunks, wire>>
    /\ UNCHANGED <<py, op, arg, stub, k>>

----------------------------------------------------------------------------
(* Characters and the regular expressions of the validators. *)

NUL == "NUL"

LF == "LF"

Lower == {"a", "b", "c", "d", "e", "f", "g", "h", "i", "j", "k", "l", "m",
          "n", "o", "p", "q", "r", "s", "t", "u", "v", "w", "x", "y", "z"}

Upper == {"A", "B", "C", "D", "E", "F", "G", "H", "I", "J", "K", "L", "M",
          "N", "O", "P", "Q", "R", "S", "T", "U", "V", "W", "X", "Y", "Z"}

Digit == {"0", "1", "2", "3", "4", "5", "6", "7", "8", "9"}

\* The class [a-zA-Z0-9-/_@].
PathChars == Lower \cup Upper \cup Digit \cup {"-", "/", "_", "@"}

\* What may follow the last character a pattern ending in \x00?$ consumes
\* from the class: `$` matches at the end of the string and also just
\* before a line feed that ends the string.
Tails == {<< >>, <<NUL>>, <<LF>>, <<NUL, LF>>}

\* The optional single NUL terminator of the wire format.
OptionalNul == {<< >>, <<NUL>>}

\* re.match("^[a-zA-Z0-9-/_@]+\x00?$", path)
MatchPath(path) ==
    \E t \in Tails :
       /\ Len(path) > Len(t)
       /\ EndsWith(path, t)
       /\ \A i \in 1..(Len(path) - Len(t)) : path[i] \in PathChars

introduceDomain ==
    <<"@", "i", "n", "t", "r", "o", "d", "u", "c", "e", "D", "o", "m", "a", "i", "n">>

releaseDomain ==
    <<"@", "r", "e", "l", "e", "a", "s", "e", "D", "o", "m", "a", "i", "n">>

\* re.match("^@(?:introduceDomain|releaseDomain)\x00?$", wpath)
MatchWatch(wpath) ==
    \E w \in {introduceDomain, releaseDomain}, t \in Tails : wpath = w \o t

PermModes == {"w", "r", "b", "n"}

\* A looser pattern: the mode character alone.
MatchPermWrong(perm) == Len(perm) >= 1 /\ perm[1] \in PermModes

\* re.match("[wrbn]\d+", perm): the pattern is anchored at the start only.
MatchPerm(perm) == Len(perm) >= 2 /\ perm[1] \in PermModes /\ perm[2] \in Digit

----------------------------------------------------------------------------
(* posixpath.abspath, as far as strings without "." components go. *)

getcwd == <<"/", "r", "o", "o", "t">>

isabs(path) == StartsWith(path, <<"/">>)

pathjoin(a, b) ==
    IF isabs(b) THEN b
    ELSE IF a = << >> \/ EndsWith(a, <<"/">>) THEN a \o b
    ELSE a \o <<"/">> \o b

\* Empty components are dropped, one or two leading slashes are kept, and
\* an empty result becomes ".".
normpath(path) ==
    IF path = << >> THEN <<".">>
    ELSE
      LET initial == IF ~isabs(path) THEN 0
                     ELSE IF StartsWith(path, <<"/", "/">>)
                             /\ ~StartsWith(path, <<"/", "/", "/">>) THEN 2
                     ELSE 1
          tagged == [i \in 1..Len(path) |-> <<i, path[i]>>]
          Keep(p) == \/ p[2] # "/"
                     \/ /\ p[1] < Len(path)
                        /\ path[p[1] + 1] # "/"
                        /\ \E j \in 1..(p[1] - 1) : path[j] # "/"
          kept == SelectSeq(tagged, Keep)
          r == Repeat("/", initial) \o [i \in 1..Len(kept) |-> kept[i][2]]
      IN IF r = << >> THEN <<".">> ELSE r

abspath(path) == normpath(IF isabs(path) THEN path ELSE pathjoin(getcwd, path))

----------------------------------------------------------------------------
(* validate_path, validate_watch_path, validate_perms *)

AbsMaxLen == 3072

RelMaxLen == 2048

InvalidPath(path) == [type |-> "InvalidPath", args |-> path]

InvalidPermission(perm) == [type |-> "InvalidPermission", args |-> perm]

\* "//" in path
HasDoubleSlash(path) == \E i \in 1..(Len(path) - 1) : path[i] = "/" /\ path[i + 1] = "/"

validate_path(path) ==
    LET max_len == IF abspath(path) # << >> THEN AbsMaxLen ELSE RelMaxLen
    IN IF ~(MatchPath(path) /\ Len(path) <= max_len)
          THEN Raised(InvalidPath(path))
       ELSE IF (Len(path) > 1 /\ path[Len(path)] = "/") \/ HasDoubleSlash(path)
          THEN Raised(InvalidPath(path))
       ELSE Returned(path)

validate_watch_path(wpath) ==
    IF StartsWith(wpath, <<"@">>) /\ ~MatchWatch(wpath)
       THEN Raised(InvalidPath(wpath))
    ELSE LET r == validate_path(wpath)
         IN IF r.kind = "raise" THEN r ELSE Returned(wpath)

validate_perms(perms) ==
    LET bad == {i \in 1..Len(perms) : ~MatchPerm(perms[i])}
    IN IF bad = {} THEN Returned(perms)
       ELSE Raised(InvalidPermission(perms[CHOOSE i \in bad : \A j \in bad : i <= j]))

----------------------------------------------------------------------------
(* error(smth) *)

\* errno.errorcode, the codes the model uses.  EWOULDBLOCK shares code 11
\* with EAGAIN and so has no entry of its own.
errorcode == (1 :> "EPERM") @@ (2 :> "ENOENT") @@ (11 :> "EAGAIN") @@ (22 :> "EINVAL")

\* _codeerror: the reverse mapping.
codeerror ==
    [m \in {errorcode[c] : c \in DOMAIN errorcode} |->
        CHOOSE c \in DOMAIN errorcode : errorcode[c] = m]

\* os.strerror
strerror(c) ==
    CASE c = 0 -> "Success"
      [] c = 1 -> "Operation not permitted"
      [] c = 2 -> "No such file or directory"
      [] c = 11 -> "Resource temporarily unavailable"
      [] c = 22 -> "Invalid argument"
      [] OTHER -> "Unknown error"

PyXSError(code, msg) == [type |-> "PyXSError", args |-> <<code, msg>>]

Name(s) == [isstr |-> TRUE, name |-> s, code |-> 0]

Code(n) == [isstr |-> FALSE, name |-> "", code |-> n]

\* The name `basestring` exists in Python 2 only; looking it up in Python 3
\* raises NameError before anything else happens.
error(smth) ==
    IF py = 3 THEN Raised([type |-> "NameError", args |-> "basestring"])
    ELSE LET code == IF smth.isstr
                        THEN (IF smth.name \in DOMAIN codeerror
                                 THEN codeerror[smth.name] ELSE 0)
                        ELSE smth.code
         IN Returned(PyXSError(code, strerror(code)))

----------------------------------------------------------------------------
(* Inputs the caller draws from. *)

PathAlphabet == {"a", "/", "@", NUL, LF, "!"}

ShortPaths == Seqs(PathAlphabet, MaxPathLen)

LongLens == {AbsMaxLen + d : d \in (-Slack)..Slack} \cup {RelMaxLen + d : d \in (-Slack)..Slack}

LongPaths ==
    {pre \o Repeat("a", n - Len(pre) - Len(t)) \o t :
        pre \in {<< >>, <<"/">>}, n \in LongLens, t \in OptionalNul}

WatchPaths ==
    {w \o t : w \in {introduceDomain, releaseDomain, <<"@", "b", "o", "g", "u", "s">>},
              t \in Seqs({NUL, LF, "a"}, 2)}

Paths == ShortPaths \cup LongPaths \cup WatchPaths

PermTokens ==
    {h \o Repeat("0", d) \o t :
        h \in {<< >>, <<"w">>, <<"r">>, <<"b">>, <<"n">>, <<"x">>},
        d \in 0..MaxDigits,
        t \in {<< >>, <<"g">>}}

PermLists == Seqs(PermTokens, MaxPerms)

ErrnoInputs ==
    {Name(s) : s \in {"EPERM", "ENOENT", "EAGAIN", "EINVAL", "EWOULDBLOCK", "EBOGUS"}}
    \cup {Code(n) : n \in {0, 1, 2, 11, 22}}

----------------------------------------------------------------------------
(* The caller. *)

\* How a helper that runs in one step leaves the call.
Ended(r) == IF r.kind = "raise" THEN "raised" ELSE "done"

validate_path_call ==
    /\ op = "idle"
    /\ \E p \in Paths :
          /\ arg' = p
          /\ out' = validate_path(p)
    /\ op' = "validate_path"
    /\ pc' = Ended(out')
    /\ UNCHANGED <<py, length, chunks, stub, k, calls, wire>>

validate_watch_path_call ==
    /\ op = "idle"
    /\ \E p \in Paths :
          /\ arg' = p
          /\ out' = validate_watch_path(p)
    /\ op' = "validate_watch_path"
    /\ pc' = Ended(out')
    /\ UNCHANGED <<py, length, chunks, stub, k, calls, wire>>

validate_perms_call ==
    /\ op = "idle"
    /\ \E ps \in PermLists :
          /\ arg' = ps
          /\ out' = validate_perms(ps)
    /\ op' = "validate_perms"
    /\ pc' = Ended(out')
    /\ UNCHANGED <<py, length, chunks, stub, k, calls, wire>>

error_call ==
    /\ op = "idle"
    /\ \E s \in ErrnoInputs :
          /\ arg' = s
          /\ out' = error(s)
    /\ op' = "error"
    /\ pc' = Ended(out')
    /\ UNCHANGED <<py, length, chunks, stub, k, calls, wire>>

\* The call is over: the caller has its value or its exception.
Return ==
    /\ op # "idle"
    /\ pc \in {"done", "raised"}
    /\ op' = "idle"
    /\ arg' = << >>
    /\ pc' = "idle"
    /\ length' = 0
    /\ chunks' = << >>
    /\ out' = None
    /\ stub' = "short"
    /\ k' = 1
    /\ calls' = << >>
    /\ wire' = << >>
    /\ UNCHANGED py

Init ==
    /\ py \in {2, 3}
    /\ op = "idle"
    /\ arg = << >>
    /\ pc = "idle"
    /\ length = 0
    /\ chunks = << >>
    /\ out = None
    /\ stub = "short"
    /\ k = 1
    /\ calls = << >>
    /\ wire = << >>

Next ==
    \/ writeall_call
    \/ writeall_iter
    \/ readall_call
    \/ readall_iter
    \/ validate_path_call
    \/ validate_watch_path_call
    \/ validate_perms_call
    \/ error_call
    \/ Return

Spec == Init /\ [][Next]_vars

\* The loops are synchronous code: a loop that can take its next iteration
\* takes it.
FairSpec == Spec /\ WF_vars(writeall_iter) /\ WF_vars(readall_iter)

----------------------------------------------------------------------------
(* Vocabulary of the properties. *)

InIO == op \in {"writeall", "readall"}

\* The bytes the channel took from each raw write, call by call.
AcceptedParts == [i \in 1..Len(calls) |-> SubSeq(calls[i].arg, 1, calls[i].ret)]

\* The buffers handed to the raw write, call by call.
PassedBuffers == [i \in 1..Len(calls) |-> calls[i].arg]

\* The chunks the raw read handed out, call by call.
ReturnedChunks == [i \in 1..Len(calls) |-> calls[i].ret]

\* A string without its optional NUL terminator.
StripNul(s) == IF Len(s) >= 1 /\ s[Len(s)] = NUL THEN SubSeq(s, 1, Len(s) - 1) ELSE s

\* Bounded length, restricted characters, no trailing slash except for the
\* root, no empty segment.
WireSafe(s) ==
    LET p == StripNul(s)
    IN /\ Len(s) <= (IF isabs(s) THEN AbsMaxLen ELSE RelMaxLen)
       /\ \A i \in 1..Len(p) : p[i] \in PathChars
       /\ (p # << >> /\ p[Len(p)] = "/") => p = <<"/">>
       /\ ~HasDoubleSlash(p)

\* A mode character followed by m >= 1 decimal digits, then anything.
TokenOk(t) ==
    \E m \in 1..(Len(t) - 1) :
       /\ t[1] \in {"w", "r", "b", "n"}
       /\ \A i \in 2..(m + 1) : t[i] \in Digit

SpecialTokens == {w \o t : w \in {introduceDomain, releaseDomain}, t \in OptionalNul}

----------------------------------------------------------------------------
(* Properties. *)

\* C1: behind a handle whose raw write takes between 1 and k bytes from the
\* front of its argument, writeall terminates, and when it returns the bytes
\* the channel accepted, in call order, are exactly the data.
C1_WriteAllTransfersData ==
    /\ [](op = "writeall" /\ stub = "short" /\ pc = "done" => wire = arg)
    /\ [](op = "writeall" /\ stub = "short" => pc # "raised")
    /\ (op = "writeall" /\ stub = "short") ~> (op = "writeall" /\ pc = "done")

C1_Witness ==
    /\ op = "writeall" /\ stub = "short" /\ pc = "done"
    /\ Len(calls) >= 2
    /\ Len(arg) = MaxData
    /\ wire = arg

\* C2: behind a handle whose raw read hands out non-empty chunks of at most
\* k bytes, readall(fd, n) returns exactly n bytes, the chunks in read order.
C2_ReadAllReturnsExactly ==
    (op = "readall" /\ stub = "short" /\ pc = "done") =>
        /\ out.kind = "return"
        /\ Len(out.value) = arg
        /\ out.value = JoinBytes(ReturnedChunks)
        /\ out.value = wire

C2_Witness ==
    /\ op = "readall" /\ stub = "short" /\ pc = "done"
    /\ Len(calls) >= 2
    /\ calls[1].ret # calls[2].ret
    /\ Len(out.value) = arg

\* C3: every string validate_path returns is wire-safe.
C3_AcceptedPathIsWireSafe ==
    (op = "validate_path" /\ out.kind = "return") => WireSafe(arg)

\* C4: a relative path longer than 2048 characters is rejected; a
\* well-formed absolute path is accepted up to 3072 characters and rejected
\* beyond.
C4_AsymmetricLengthBound ==
    op = "validate_path" =>
        /\ (~isabs(arg) /\ Len(arg) > RelMaxLen) => out.kind = "raise"
        /\ (isabs(arg) /\ Len(arg) > AbsMaxLen) => out.kind = "raise"
        /\ ( /\ isabs(arg)
             /\ Len(arg) <= AbsMaxLen
             /\ \A i \in 1..Len(arg) : arg[i] \in PathChars
             /\ ~HasDoubleSlash(arg)
             /\ arg[Len(arg)] = "/" => arg = <<"/">> ) => out.kind = "return"

\* C5: validate_watch_path returns the two special tokens, with or without
\* one NUL, unchanged, and raises InvalidPath for every other string that
\* starts with "@".
C5_OnlySpecialTokens ==
    op = "validate_watch_path" =>
        /\ arg \in SpecialTokens => (out.kind = "return" /\ out.value = arg)
        /\ (StartsWith(arg, <<"@">>) /\ arg \notin SpecialTokens) =>
              (out.kind = "raise" /\ out.exc = InvalidPath(arg))

\* C6: validate_perms returns its argument exactly when every token starts
\* with a mode character and a digit, and otherwise raises
\* InvalidPermission with the first token that does not.
C6_PermsFirstBadToken ==
    op = "validate_perms" =>
        LET bad == {i \in 1..Len(arg) : ~TokenOk(arg[i])}
        IN /\ out.kind = "return" <=> bad = {}
           /\ out.kind = "return" => out.value = arg
           /\ out.kind = "raise" =>
                 \E i \in bad :
                    /\ \A j \in bad : i <= j
                    /\ out.exc = InvalidPermission(arg[i])

C6_Witness ==
    /\ op = "validate_perms"
    /\ Len(arg) = 2
    /\ TokenOk(arg[1]) /\ Len(arg[1]) = 3
    /\ ~TokenOk(arg[2])
    /\ out.kind = "raise"
    /\ out.exc.args = arg[2]

\* C7 as stated: the buffers passed to the raw write, concatenated in call
\* order, equal the data.
C7_PassedBuffersAreData ==
    (op = "writeall" /\ pc = "done") => JoinBytes(PassedBuffers) = arg

\* C7 as amended: every buffer passed to the raw write is the unwritten
\* suffix of the data, and the parts of the buffers the raw write accepted,
\* concatenated in call order, equal the data.
C7_AcceptedPartsAreData ==
    /\ (op = "writeall" /\ pc = "done") => JoinBytes(AcceptedParts) = arg
    /\ op = "writeall" =>
          \A i \in 1..Len(calls) :
             /\ EndsWith(arg, calls[i].arg)
             /\ i > 1 /\ ~calls[i].raised =>
                   Len(calls[i].arg) = Len(calls[i - 1].arg) - calls[i - 1].ret

C7_Witness ==
    /\ op = "writeall" /\ pc = "done"
    /\ Len(calls) >= 2
    /\ calls[1].ret < Len(calls[1].arg)
    /\ calls[2].arg # arg
    /\ JoinBytes(AcceptedParts) = arg

\* C8: error() never fails; a name of the reverse table gives the error of
\* its numeric code, and any other name the error of code 0.
C8_TranslatorTotal ==
    op = "error" =>
        LET code == IF ~arg.isstr THEN arg.code
                    ELSE IF \E c \in DOMAIN errorcode : errorcode[c] = arg.name
                         THEN CHOOSE c \in DOMAIN errorcode : errorcode[c] = arg.name
                    ELSE 0
        IN /\ out.kind = "return"
           /\ out.value = PyXSError(code, strerror(code))

\* C9: behind a handle whose raw primitive transfers nothing and raises
\* nothing, writeall of non-empty data and readall of a positive length
\* neither return nor raise: every raw call repeats the first one and the
\* remaining length never moves.
C9_ZeroProgressNeverEnds ==
    /\ (op = "writeall" /\ stub = "zero" /\ Len(arg) > 0) =>
          /\ pc = "loop" /\ out.kind = "none"
          /\ length = Len(arg)
          /\ \A i \in 1..Len(calls) : calls[i].arg = arg /\ ~calls[i].raised
          /\ Len(calls) < MaxStall => ENABLED writeall_iter
    /\ (op = "readall" /\ stub = "zero" /\ arg > 0) =>
          /\ pc = "loop" /\ out.kind = "none"
          /\ length = arg
          /\ \A i \in 1..Len(calls) : calls[i].arg = arg /\ ~calls[i].raised
          /\ Len(calls) < MaxStall => ENABLED readall_iter

C9_Witness ==
    /\ op = "writeall" /\ stub = "zero"
    /\ Len(arg) > 0
    /\ Len(calls) >= 2
    /\ pc = "loop"

\* C10: an error raised by a raw call ends the operation with that same
\* error: the failing call is the last one issued, and nothing is returned.
C10_RawErrorPropagates ==
    InIO =>
        /\ \A i \in 1..Len(calls) :
              calls[i].raised =>
                 /\ i = Len(calls)
                 /\ pc = "raised"
                 /\ out.kind = "raise"
                 /\ out.exc = calls[i].ret
        /\ pc = "raised" => (calls # << >> /\ calls[Len(calls)].raised)

C10_Witness ==
    /\ op = "readall" /\ pc = "raised"
    /\ Len(calls) >= 2
    /\ Len(wire) > 0
    /\ out.kind = "raise"
    /\ out.exc = calls[Len(calls)].ret

====
